---- MODULE Spec2Model ----
(***************************************************************************)
(* Model of the JNI adapter android/whisperlib/src/main/jni/whisper/jni.c. *)
(*                                                                         *)
(* Spec is the managed caller invoking the entry points one at a time.     *)
(* Every entry point is one action, except initContextFromInputStream,     *)
(* whose library call re-enters the adapter through the loader callbacks   *)
(* (read / eof / close): it is entered, the callbacks run, and it returns. *)
(* The inference library and the managed runtime are the environment: what *)
(* they return is drawn from small sets, what the adapter does with it is  *)
(* translated from the C source.                                           *)
(***************************************************************************)
EXTENDS Integers, Sequences, FiniteSets, TLC

(* ------------------------------ bounds -------------------------------- *)
MaxCtx == 1
MaxSegs == 2
JintBits == 3
MaxOffset == 6

(* --------------------------- basic values ----------------------------- *)
NULL == 0
NoCtx == 0 - 1          \* "ctx" of a native call that takes no context
NoIndex == 0 - 1        \* "index" of an entry point that takes no index
Addrs == 1..MaxCtx      \* addresses the library can place a context at
NullText == << 0 - 1 >>     \* a NULL const char *
NullString == << 0 - 2 >>   \* a null jstring
Uninit == 0 - 1             \* a byte of heap memory never written
EmptyJString == << >>

\* The segments a transcription can produce: std::string text, t0, t1.
Segments ==
    { [text |-> <<97>>, t0 |-> 0, t1 |-> 1],
      [text |-> <<98, 97>>, t0 |-> 1, t1 |-> 3],
      [text |-> NullText, t0 |-> 3, t1 |-> 3] }
\* Transcripts are chronological: each segment starts where the one before
\* it ended, or later.
Transcripts ==
    { t \in UNION { [1..n -> Segments] : n \in 0..MaxSegs } :
        \A i \in 1..(Len(t) - 1) : t[i].t1 <= t[i + 1].t0 /\ t[i] # t[i + 1] }
Results == {0 - 1, 0, 1}    \* return codes of whisper_full
LoaderRuns == { <<"read", "close">>, <<"read", "eof", "read", "close">> }
SysInfo == <<78>>

(* --------------------------- C strings -------------------------------- *)
RECURSIVE strlenFrom(_, _)
strlenFrom(buf, i) == IF buf[i] = 0 THEN i - 1 ELSE strlenFrom(buf, i + 1)
strlen(buf) == strlenFrom(buf, 1)

realloc(buf, n) ==
    [i \in 1..n |-> IF i <= Len(buf) THEN buf[i] ELSE Uninit]

strcat_Overwrite(dest, src) ==
    LET s == strlen(src)
    IN  [i \in 1..Len(dest) |->
            IF i <= s THEN src[i] ELSE IF i = s + 1 THEN 0 ELSE dest[i]]
strcat(dest, src) ==
    LET d == strlen(dest)
        s == strlen(src)
    IN  [i \in 1..Len(dest) |->
            IF i <= d THEN dest[i]
            ELSE IF i <= d + s THEN src[i - d]
            ELSE IF i = d + s + 1 THEN 0
            ELSE dest[i]]

NewStringUTF(chars) ==
    IF chars = NullText THEN NullString
    ELSE [i \in 1..strlen(chars) |-> chars[i]]

(* ------------------- the inference library's accessors ---------------- *)
\* view: the result_all list the library finds behind the context pointer;
\* g: what an out-of-range read yields.
InRange(view, i) == i >= 0 /\ i < Len(view)
whisper_full_n_segments(view) == Len(view)
whisper_full_get_segment_text(view, i, g) ==
    LET seg == IF InRange(view, i) THEN view[i + 1] ELSE g
    IN  IF seg.text = NullText THEN NullText ELSE seg.text \o <<0>>
whisper_full_get_segment_t0(view, i, g) ==
    IF InRange(view, i) THEN view[i + 1].t0 ELSE g.t0
whisper_full_get_segment_t1(view, i, g) ==
    IF InRange(view, i) THEN view[i + 1].t1 ELSE g.t1

NativeCall(fn, ctx, arg, len) == [fn |-> fn, ctx |-> ctx, arg |-> arg, len |-> len]
PlatformCall(fn, mode) == [fn |-> fn, mode |-> mode]
Ret(s, n) == [s |-> s, n |-> n]

Void == Ret(NullString, 0)
AnySegment == CHOOSE s \in Segments : TRUE
\* What the environment handed the handler: whisper_full's return code, the
\* segment list behind the context, and whether the asset opened.
Lib(result, view, asset) == [result |-> result, view |-> view, asset |-> asset]
NoLib == Lib(0, << >>, NULL)
Body(ret, ncalls, jcalls, callbacks, lib) ==
    [ret |-> ret, ncalls |-> ncalls, jcalls |-> jcalls, callbacks |-> callbacks,
     lib |-> lib]

VARIABLES
    live,           \* addresses holding a context the library has not freed
    freed,          \* addresses given out and freed since (dangling handles)
    segs,           \* result_all of each context
    crashed,        \* the process died in undefined behaviour
    call,           \* the last entry point invoked: name, handle, index
    ncalls,         \* the inference-library calls it made, in order
    jcalls,         \* the managed buffers it acquired and released, in order
    callbacks,      \* the asset loader callbacks the library invoked during it
    ret,            \* what it returned to the managed caller
    lib,            \* what the library and the platform handed it
    callerMisuse,   \* history: the caller has passed a freed handle
    nativeDeadUse,  \* history: the library has been handed a freed handle
    phase,          \* stream loader: "idle" | "loading" | "aborted"
    offset,         \* input_stream_context.offset
    last            \* the last loader callback: its inputs and its result

ctxVars == <<live, freed, segs, crashed, call, ncalls, jcalls, callbacks, ret, lib,
             callerMisuse, nativeDeadUse>>
streamVars == <<phase, offset, last>>
vars == <<live, freed, segs, crashed, call, ncalls, jcalls, callbacks, ret, lib,
          callerMisuse, nativeDeadUse, phase, offset, last>>

(* ------------------------- entry-point bodies ------------------------- *)
\* Each body is the handler's code as a function of its arguments and of
\* what the library hands back; it yields the value returned, the library
\* calls made, the buffer traffic and the loader callbacks that ran.

initContextBody_Legacy(context) ==
    Body(Ret(NullString, context),
         << NativeCall("whisper_init_from_file", NoCtx, 0, 0) >>,
         << PlatformCall("GetStringUTFChars", "none"),
            PlatformCall("ReleaseStringUTFChars", "none") >>,
         << >>, NoLib)
initContextBody(context) ==
    Body(Ret(NullString, context),
         << NativeCall("whisper_context_default_params", NoCtx, 0, 0),
            NativeCall("whisper_init_from_file_with_params", NoCtx, 0, 0) >>,
         << PlatformCall("GetStringUTFChars", "none"),
            PlatformCall("ReleaseStringUTFChars", "none") >>,
         << >>, NoLib)

AssetCallback(c) ==
    IF c = "read" THEN "asset_read"
    ELSE IF c = "eof" THEN "asset_is_eof" ELSE "asset_close"

whisper_init_from_asset_Unchecked(asset, context, run) ==
    [context |-> context,
     ncalls |-> << NativeCall("whisper_context_default_params", NoCtx, 0, 0),
                   NativeCall("whisper_init_with_params", NoCtx, 0, 0) >>,
     callbacks |-> [i \in 1..Len(run) |-> AssetCallback(run[i])]]
whisper_init_from_asset(asset, context, run) ==
    IF asset = NULL
    THEN [context |-> NULL, ncalls |-> << >>, callbacks |-> << >>]
    ELSE [context |-> context,
          ncalls |-> << NativeCall("whisper_context_default_params", NoCtx, 0, 0),
                        NativeCall("whisper_init_with_params", NoCtx, 0, 0) >>,
          callbacks |-> [i \in 1..Len(run) |-> AssetCallback(run[i])]]

initContextFromAssetBody(asset, context, run) ==
    LET r == whisper_init_from_asset(asset, context, run)
    IN  Body(Ret(NullString, r.context),
             r.ncalls,
             << PlatformCall("GetStringUTFChars", "none"),
                PlatformCall("ReleaseStringUTFChars", "none") >>,
             r.callbacks, Lib(0, << >>, asset))

initContextFromInputStreamBody(context) ==
    Body(Ret(NullString, context),
         << NativeCall("whisper_context_default_params", NoCtx, 0, 0),
            NativeCall("whisper_init_with_params", NoCtx, 0, 0) >>,
         << >>, << >>, NoLib)

freeContextBody_Twice(context_ptr) ==
    Body(Void, << NativeCall("whisper_free", context_ptr, 0, 0),
                  NativeCall("whisper_free", context_ptr, 0, 0) >>, << >>, << >>,
         NoLib)
freeContextBody(context_ptr) ==
    Body(Void, << NativeCall("whisper_free", context_ptr, 0, 0) >>, << >>, << >>,
         NoLib)

RECURSIVE ConcatLoop(_, _, _, _)
ConcatLoop(view, i, n_segments, full_text) ==
    IF i < n_segments
    THEN LET segment_text == whisper_full_get_segment_text(view, i, AnySegment)
         IN  IF segment_text # NullText
             THEN LET old_len == strlen(full_text)
                      segment_len == strlen(segment_text)
                      grown == realloc(full_text, old_len + segment_len + 1)
                  IN  ConcatLoop(view, i + 1, n_segments, strcat(grown, segment_text))
             ELSE ConcatLoop(view, i + 1, n_segments, full_text)
    ELSE full_text

Failed_NegativeOnly(result) == result < 0
Failed(result) == result # 0

fullTranscribeBuffers_Leak(result) ==
    IF Failed(result)
    THEN << PlatformCall("GetFloatArrayElements", "none") >>
    ELSE << PlatformCall("GetFloatArrayElements", "none"),
            PlatformCall("ReleaseFloatArrayElements", "JNI_ABORT") >>
\* The audio array: acquired on entry, released before either return.
fullTranscribeBuffers(result) ==
    << PlatformCall("GetFloatArrayElements", "none"),
       PlatformCall("ReleaseFloatArrayElements", "JNI_ABORT") >>

fullTranscribeBody(context_ptr, num_threads, audio_data_length, result, view) ==
    LET head == << NativeCall("whisper_full_default_params", NoCtx, 0, 0),
                   NativeCall("whisper_reset_timings", context_ptr, 0, 0),
                   NativeCall("whisper_full", context_ptr, num_threads,
                              audio_data_length) >>
        buffers == fullTranscribeBuffers(result)
    IN  IF Failed(result)
        THEN Body(Ret(NewStringUTF(<<0>>), 0), head, buffers, << >>,
                  Lib(result, view, NULL))
        ELSE LET n_segments == whisper_full_n_segments(view)
                 malloc1 == [i \in 1..1 |-> Uninit]
                 full_text == ConcatLoop(view, 0, n_segments,
                                         [malloc1 EXCEPT ![1] = 0])
             IN  Body(Ret(NewStringUTF(full_text), 0),
                      head \o
                      << NativeCall("whisper_get_timings", context_ptr, 0, 0),
                         NativeCall("whisper_full_n_segments", context_ptr, 0, 0) >> \o
                      [i \in 1..n_segments |->
                          NativeCall("whisper_full_get_segment_text", context_ptr,
                                     i - 1, 0)],
                      buffers, << >>, Lib(result, view, NULL))

getTextSegmentCountBody(context_ptr, view) ==
    Body(Ret(NullString, whisper_full_n_segments(view)),
         << NativeCall("whisper_full_n_segments", context_ptr, 0, 0) >>,
         << >>, << >>, Lib(0, view, NULL))

getTextSegmentBody(context_ptr, index, view, g) ==
    Body(Ret(NewStringUTF(whisper_full_get_segment_text(view, index, g)), 0),
         << NativeCall("whisper_full_get_segment_text", context_ptr, index, 0) >>,
         << >>, << >>, Lib(0, view, NULL))

getTextSegmentT0Body(context_ptr, index, view, g) ==
    Body(Ret(NullString, whisper_full_get_segment_t0(view, index, g)),
         << NativeCall("whisper_full_get_segment_t0", context_ptr, index, 0) >>,
         << >>, << >>, Lib(0, view, NULL))

getTextSegmentT1Body_T0(context_ptr, index, view, g) ==
    Body(Ret(NullString, whisper_full_get_segment_t0(view, index, g)),
         << NativeCall("whisper_full_get_segment_t0", context_ptr, index, 0) >>,
         << >>, << >>, Lib(0, view, NULL))
getTextSegmentT1Body(context_ptr, index, view, g) ==
    Body(Ret(NullString, whisper_full_get_segment_t1(view, index, g)),
         << NativeCall("whisper_full_get_segment_t1", context_ptr, index, 0) >>,
         << >>, << >>, Lib(0, view, NULL))

getSystemInfoBody(sysinfo) ==
    Body(Ret(NewStringUTF(sysinfo \o <<0>>), 0),
         << NativeCall("whisper_print_system_info", NoCtx, 0, 0) >>, << >>, << >>, NoLib)

benchMemcpyBody(n_threads, str) ==
    Body(Ret(NewStringUTF(str \o <<0>>), 0),
         << NativeCall("whisper_bench_memcpy_str", NoCtx, n_threads, 0) >>,
         << >>, << >>, NoLib)

benchGgmlMulMatBody(n_threads, str) ==
    Body(Ret(NewStringUTF(str \o <<0>>), 0),
         << NativeCall("whisper_bench_ggml_mul_mat_str", NoCtx, n_threads, 0) >>,
         << >>, << >>, NoLib)

(* ----------------------- the library's heap --------------------------- *)
HeldHandles == {NULL} \cup live \cup freed   \* what an init call ever returned
FreedBy(calls) ==
    { calls[i].ctx : i \in { j \in 1..Len(calls) :
                               calls[j].fn = "whisper_free" /\ calls[j].ctx # NULL } }

\* Does the call sequence hand the library a handle that is freed by then?
RECURSIVE DeadUses(_, _)
DeadUses(calls, dead) ==
    IF Len(calls) = 0 THEN FALSE
    ELSE LET c == Head(calls)
         IN  \/ c.ctx \in dead
             \/ DeadUses(Tail(calls),
                         IF c.fn = "whisper_free" /\ c.ctx # NULL
                         THEN dead \cup {c.ctx} ELSE dead)

\* The calls made up to and including the first one that takes a context.
FaultPrefix(calls) ==
    LET takes == { i \in 1..Len(calls) : calls[i].ctx # NoCtx }
    IN  IF takes = {} THEN calls
        ELSE SubSeq(calls, 1, CHOOSE i \in takes : \A j \in takes : i <= j)

\* What the library finds behind a handle: the context's list, or for a
\* handle that points at no context whatever the memory happens to hold.
GarbageViews == { t \in Transcripts : Len(t) <= 1 }
ViewOf(h) == IF h \in live THEN {segs[h]} ELSE GarbageViews
\* What a read past the end of the library's segment vector yields.
GarbageFor(view, index) == IF InRange(view, index) THEN {AnySegment} ELSE Segments
\* What whisper_full leaves in result_all: any transcript when it succeeds;
\* the old list or an empty one when it fails.
AfterFull(h, result) ==
    IF h \notin live THEN GarbageViews
    ELSE IF result = 0 THEN Transcripts
    ELSE {segs[h], << >>}
CallInputs == { <<1, 0>>, <<4, 2>> }    \* <<num_threads, audio_data_length>>
ThreadCounts == {1, 4}

(* ===================== the input-stream loader ======================== *)
\* jint is a signed integer of JintBits bits and size_t an unsigned one of
\* twice that width (32 and 64 in the build); conversions wrap as C's do.
SizeBits == 2 * JintBits
JintMod == 2 ^ JintBits
JintMax == 2 ^ (JintBits - 1) - 1
JintMin == 0 - 2 ^ (JintBits - 1)
SizeMod == 2 ^ SizeBits
Jint == JintMin..JintMax
ToSizeT(x) == x % SizeMod
ToJint(x) == LET m == x % JintMod IN IF m > JintMax THEN m - JintMod ELSE m

\* The sizes the loader asks for, and what the managed stream answers.
ReadSizes == {0, 1, 2, JintMax, JintMax + 1, JintMod + 1, SizeMod - 1}
Avails == {JintMin, 0 - 1, 0, 1, 2, JintMax}
ReadAnswers(size_to_copy) ==
    {0 - 1, 0, size_to_copy - 1, size_to_copy} \cap Jint

\* size_to_copy = read_size < avail_size ? (jint)read_size : avail_size;
\* the comparison is made in size_t.
SizeToCopy(read_size, avail_size) ==
    IF read_size < ToSizeT(avail_size) THEN ToJint(read_size) ELSE avail_size

inputStreamReadBody(off, read_size, avail_size, n_read) ==
    LET size_to_copy == SizeToCopy(read_size, avail_size)
    IN  [op |-> "read",
         read_size |-> read_size,
         avail |-> avail_size,
         size_to_copy |-> size_to_copy,
         n_read |-> n_read,
         logged |-> (ToSizeT(size_to_copy) # read_size \/ size_to_copy # n_read),
         jcalls |-> << PlatformCall("NewByteArray", "none"),
                       PlatformCall("GetByteArrayElements", "none"),
                       PlatformCall("ReleaseByteArrayElements", "JNI_ABORT"),
                       PlatformCall("DeleteLocalRef", "none") >>,
         copied |-> ToSizeT(size_to_copy),
         before |-> off,
         offset |-> (off + ToSizeT(size_to_copy)) % SizeMod,
         ret |-> ToSizeT(size_to_copy)]

inputStreamEofBody_Strict(result) ==
    [op |-> "eof", avail |-> result, ret |-> (result < 0)]
inputStreamEofBody(result) ==
    [op |-> "eof", avail |-> result, ret |-> (result <= 0)]

(* ------------------------------ states -------------------------------- *)
NoCall == [name |-> "none", ctx |-> NoCtx, index |-> NoIndex]
NoCallback == [op |-> "none"]

Init ==
    /\ live = {}
    /\ freed = {}
    /\ segs = [a \in Addrs |-> << >>]
    /\ crashed = FALSE
    /\ call = NoCall
    /\ ncalls = << >>
    /\ jcalls = << >>
    /\ callbacks = << >>
    /\ ret = Void
    /\ lib = NoLib
    /\ callerMisuse = FALSE
    /\ nativeDeadUse = FALSE
    /\ phase = "idle"
    /\ offset = 0
    /\ last = NoCallback

\* The managed caller may invoke an entry point.
Idle == ~crashed /\ phase = "idle"

\* The entry point runs to its return statement.
Return(name, ctx, index, body, segs2) ==
    LET gone == FreedBy(body.ncalls) \cap Addrs
        made == IF name \in {"initContext", "initContextFromAsset",
                             "initContextFromInputStream"}
                THEN {body.ret.n} \ {NULL} ELSE {}
        live2 == (live \ gone) \cup made
    IN  /\ call' = [name |-> name, ctx |-> ctx, index |-> index]
        /\ ncalls' = body.ncalls
        /\ jcalls' = body.jcalls
        /\ callbacks' = body.callbacks
        /\ ret' = body.ret
        /\ lib' = body.lib
        /\ live' = live2
        /\ freed' = (freed \cup gone) \ made
        /\ segs' = [a \in Addrs |-> IF a \in live2 /\ a \notin made
                                    THEN segs2[a] ELSE << >>]
        /\ callerMisuse' = (callerMisuse \/ ctx \in freed)
        /\ nativeDeadUse' = (nativeDeadUse \/ DeadUses(body.ncalls, freed))
        /\ crashed' = FALSE
        /\ phase' = "idle"
        /\ offset' = 0
        /\ last' = NoCallback

\* The process dies inside the first library call that dereferences ctx.
Abort(name, ctx, index, body) ==
    /\ call' = [name |-> name, ctx |-> ctx, index |-> index]
    /\ ncalls' = FaultPrefix(body.ncalls)
    /\ jcalls' = << >>
    /\ callbacks' = << >>
    /\ ret' = Void
    /\ lib' = NoLib
    /\ callerMisuse' = (callerMisuse \/ ctx \in freed)
    /\ nativeDeadUse' = (nativeDeadUse \/ ctx \in freed)
    /\ crashed' = TRUE
    /\ UNCHANGED <<live, freed, segs>>
    /\ UNCHANGED streamVars

(* --------------------------- entry points ----------------------------- *)
\* Every handler but freeContext hands its handle to a library function
\* that dereferences it.  A null handle kills the process there; a freed one
\* kills it or lets the call read whatever the memory holds.
NewAddrs == {NULL} \cup (Addrs \ live)   \* what an init call of the library yields

initContext ==
    /\ Idle
    /\ \E context \in NewAddrs :
          Return("initContext", NoCtx, NoIndex, initContextBody(context), segs)

initContextFromAsset ==
    /\ Idle
    /\ \E asset \in {NULL, 1} :
       \E context \in (IF asset = NULL THEN {NULL} ELSE NewAddrs) :
       \E run \in (IF asset = NULL THEN {<< >>} ELSE LoaderRuns) :
          Return("initContextFromAsset", NoCtx, NoIndex,
                 initContextFromAssetBody(asset, context, run), segs)

freeContext ==
    /\ Idle
    /\ \E h \in HeldHandles :
          \/ Return("freeContext", h, NoIndex, freeContextBody(h), segs)
          \/ /\ h \in freed
             /\ Abort("freeContext", h, NoIndex, freeContextBody(h))

fullTranscribe ==
    /\ Idle
    /\ \E h \in HeldHandles : \E in \in CallInputs :
          \/ /\ h # NULL
             /\ \E result \in Results : \E after \in AfterFull(h, result) :
                   Return("fullTranscribe", h, NoIndex,
                          fullTranscribeBody(h, in[1], in[2], result, after),
                          IF h \in live THEN [segs EXCEPT ![h] = after] ELSE segs)
          \/ /\ h \notin live
             /\ Abort("fullTranscribe", h, NoIndex,
                      fullTranscribeBody(h, in[1], in[2], 0, << >>))

getTextSegmentCount ==
    /\ Idle
    /\ \E h \in HeldHandles :
          \/ /\ h # NULL
             /\ \E view \in ViewOf(h) :
                   Return("getTextSegmentCount", h, NoIndex,
                          getTextSegmentCountBody(h, view), segs)
          \/ /\ h \notin live
             /\ Abort("getTextSegmentCount", h, NoIndex,
                      getTextSegmentCountBody(h, << >>))

\* An index outside [0, n_segments) reads past the library's vector.
OutOfRange(h, index) == h \in live /\ ~InRange(segs[h], index)

getTextSegment ==
    /\ Idle
    /\ \E h \in HeldHandles : \E index \in 0..MaxSegs :
          \/ /\ h # NULL
             /\ \E view \in ViewOf(h) : \E g \in GarbageFor(view, index) :
                   Return("getTextSegment", h, index,
                          getTextSegmentBody(h, index, view, g), segs)
          \/ /\ h \notin live \/ OutOfRange(h, index)
             /\ Abort("getTextSegment", h, index,
                      getTextSegmentBody(h, index, << >>, AnySegment))

getTextSegmentT0 ==
    /\ Idle
    /\ \E h \in HeldHandles : \E index \in 0..MaxSegs :
          \/ /\ h # NULL
             /\ \E view \in ViewOf(h) : \E g \in GarbageFor(view, index) :
                   Return("getTextSegmentT0", h, index,
                          getTextSegmentT0Body(h, index, view, g), segs)
          \/ /\ h \notin live \/ OutOfRange(h, index)
             /\ Abort("getTextSegmentT0", h, index,
                      getTextSegmentT0Body(h, index, << >>, AnySegment))

getTextSegmentT1 ==
    /\ Idle
    /\ \E h \in HeldHandles : \E index \in 0..MaxSegs :
          \/ /\ h # NULL
             /\ \E view \in ViewOf(h) : \E g \in GarbageFor(view, index) :
                   Return("getTextSegmentT1", h, index,
                          getTextSegmentT1Body(h, index, view, g), segs)
          \/ /\ h \notin live \/ OutOfRange(h, index)
             /\ Abort("getTextSegmentT1", h, index,
                      getTextSegmentT1Body(h, index, << >>, AnySegment))

getSystemInfo ==
    /\ Idle
    /\ Return("getSystemInfo", NoCtx, NoIndex, getSystemInfoBody(SysInfo), segs)

benchMemcpy ==
    /\ Idle
    /\ \E n_threads \in ThreadCounts :
          Return("benchMemcpy", NoCtx, NoIndex,
                 benchMemcpyBody(n_threads, <<48 + n_threads>>), segs)

benchGgmlMulMat ==
    /\ Idle
    /\ \E n_threads \in ThreadCounts :
          Return("benchGgmlMulMat", NoCtx, NoIndex,
                 benchGgmlMulMatBody(n_threads, <<48 + n_threads, 120>>), segs)

(* ------------------ initContextFromInputStream ------------------------ *)
\* The loader callbacks reach only inp_ctx and the managed stream, never a
\* context, so a stream load is explored from the states with no live
\* context.

\* The handler up to the library call: it fills inp_ctx and the loader,
\* asks the stream for end-of-stream once and enters whisper_init_with_params.
initContextFromInputStreamEnter ==
    /\ Idle
    /\ live = {}
    /\ \E avail \in Avails :
          /\ phase' = "loading"
          /\ offset' = 0
          /\ last' = inputStreamEofBody(avail)
    /\ call' = [name |-> "initContextFromInputStream", ctx |-> NoCtx,
                index |-> NoIndex]
    /\ ncalls' = initContextFromInputStreamBody(NULL).ncalls
    /\ jcalls' = << >>
    /\ callbacks' = << >>
    /\ ret' = Void
    /\ lib' = NoLib
    /\ UNCHANGED <<live, freed, segs, crashed, callerMisuse, nativeDeadUse>>

\* The library pulls bytes (the model stops it once MaxOffset bytes are
\* passed).  A negative size_to_copy reaches NewByteArray and memcpy: the
\* runtime aborts, or execution goes on with the wrapped count.
inputStreamRead ==
    /\ phase = "loading"
    /\ ~crashed
    /\ offset <= MaxOffset
    /\ \E read_size \in ReadSizes : \E avail \in Avails :
       \E n_read \in ReadAnswers(SizeToCopy(read_size, avail)) :
          LET r == inputStreamReadBody(offset, read_size, avail, n_read)
          IN  \/ /\ offset' = r.offset
                 /\ last' = r
                 /\ UNCHANGED <<phase, crashed>>
              \/ /\ r.size_to_copy < 0
                 /\ crashed' = TRUE
                 /\ last' = [op |-> "abort"]
                 /\ UNCHANGED <<phase, offset>>
    /\ UNCHANGED <<live, freed, segs, call, ncalls, jcalls, callbacks, ret, lib,
                   callerMisuse, nativeDeadUse>>

inputStreamEof ==
    /\ phase = "loading"
    /\ ~crashed
    /\ \E avail \in Avails : last' = inputStreamEofBody(avail)
    /\ UNCHANGED <<phase, offset>>
    /\ UNCHANGED ctxVars

inputStreamClose ==
    /\ phase = "loading"
    /\ ~crashed
    /\ last' = [op |-> "close"]
    /\ UNCHANGED <<phase, offset>>
    /\ UNCHANGED ctxVars

\* whisper_init_with_params returns and the handler with it; inp_ctx, a
\* local of the handler, is gone.
initContextFromInputStreamLeave ==
    /\ phase = "loading"
    /\ ~crashed
    /\ \E context \in NewAddrs :
          Return("initContextFromInputStream", NoCtx, NoIndex,
                 initContextFromInputStreamBody(context), segs)

Next ==
    \/ initContext
    \/ initContextFromAsset
    \/ initContextFromInputStreamEnter
    \/ inputStreamRead
    \/ inputStreamEof
    \/ inputStreamClose
    \/ initContextFromInputStreamLeave
    \/ freeContext
    \/ fullTranscribe
    \/ getTextSegmentCount
    \/ getTextSegment
    \/ getTextSegmentT0
    \/ getTextSegmentT1
    \/ getSystemInfo
    \/ benchMemcpy
    \/ benchGgmlMulMat

Spec == Init /\ [][Next]_vars

(* ============================== claims ================================ *)
\* An entry point has been invoked and has returned to the managed caller.
Returned(name) == call.name = name /\ phase = "idle" /\ ~crashed
SegmentReads ==
    { i \in 1..Len(ncalls) :
        ncalls[i].fn \in {"whisper_full_n_segments", "whisper_full_get_segment_text",
                          "whisper_full_get_segment_t0", "whisper_full_get_segment_t1"} }
Count(calls, fn) == Cardinality({ i \in 1..Len(calls) : calls[i].fn = fn })

\* C1: whenever the whisper_full call made by fullTranscribe returns a
\* non-zero code, fullTranscribe returns the empty string and reads no
\* segment, whatever the context holds.
C1_FailureReturnsEmpty ==
    (Returned("fullTranscribe") /\ lib.result # 0)
        => (ret.s = EmptyJString /\ SegmentReads = {})
\* whisper_full failed on a live context that does hold segments.
C1_Witness ==
    /\ Returned("fullTranscribe")
    /\ lib.result # 0
    /\ call.ctx \in live
    /\ Len(segs[call.ctx]) > 0
    /\ ret.s = EmptyJString

\* The texts of a segment list, one after the other (a segment without a
\* text contributes none).
RECURSIVE TextOf(_)
TextOf(view) ==
    IF Len(view) = 0 THEN << >>
    ELSE (IF Head(view).text = NullText THEN << >> ELSE Head(view).text)
         \o TextOf(Tail(view))
TextReads ==
    SelectSeq(ncalls, LAMBDA c : c.fn = "whisper_full_get_segment_text")

\* C2: whenever whisper_full returns 0, the string fullTranscribe returns
\* is the concatenation, in increasing index order, of the texts of the
\* segments 0 .. n_segments-1, each read exactly once.
C2_SuccessConcatenates ==
    (Returned("fullTranscribe") /\ lib.result = 0)
        => /\ ret.s = TextOf(lib.view)
           /\ Len(TextReads) = Len(lib.view)
           /\ \A i \in 1..Len(TextReads) : TextReads[i].arg = i - 1
\* A successful run with two segments of different texts.
C2_Witness ==
    /\ Returned("fullTranscribe")
    /\ lib.result = 0
    /\ call.ctx \in live
    /\ Len(lib.view) = 2
    /\ lib.view[1].text = <<97>>
    /\ lib.view[2].text = <<98, 97>>
    /\ ret.s = <<97, 98, 97>>

C4_ReadReportsDelivered ==
    (last.op = "read" /\ last.avail > 0 /\ last.n_read < last.size_to_copy)
        => last.ret = (IF last.n_read < 0 THEN 0 ELSE last.n_read)

\* C5: inputStreamEof returns true exactly when the stream's available()
\* count is zero or negative, also after any number of reads.
C5_EofIffNothingAvailable ==
    last.op = "eof" => (last.ret <=> last.avail <= 0)
\* After bytes were read, available() is negative and eof answers true.
C5_Witness ==
    /\ last.op = "eof"
    /\ offset > 0
    /\ last.avail < 0
    /\ last.ret = TRUE

\* C6 (as stated): in every sequence of entry-point calls no entry point
\* hands the library a handle that freeContext has destroyed (so no context
\* is destroyed twice either).
C6_FreedHandleNeverReused == ~nativeDeadUse
\* C6 (amended): as long as the managed caller passes no freed handle, the
\* library is handed none; and a returning freeContext(h) has made the one
\* call whisper_free(h), after which h is not live.
C6_NoReuseUnlessCallerReuses ==
    /\ ~callerMisuse => ~nativeDeadUse
    /\ Returned("freeContext") =>
          /\ ncalls = << NativeCall("whisper_free", call.ctx, 0, 0) >>
          /\ call.ctx \notin live
\* A context was created and freeContext has destroyed it, the caller
\* having passed no freed handle.
C6_Witness ==
    /\ Returned("freeContext")
    /\ call.ctx \in freed
    /\ ~callerMisuse

Accessors == {"getTextSegmentCount", "getTextSegment", "getTextSegmentT0",
              "getTextSegmentT1"}
JString(text) == IF text = NullText THEN NullString ELSE text
\* The accessor was called on a live context with an index it holds.
InContract ==
    /\ call.name \in Accessors
    /\ phase = "idle" /\ ~crashed
    /\ call.ctx \in live
    /\ call.name # "getTextSegmentCount" => InRange(segs[call.ctx], call.index)
AccessorAnswer ==
    LET list == segs[call.ctx]
        seg == list[call.index + 1]
    IN  CASE call.name = "getTextSegmentCount" -> ret.n = Len(list)
          [] call.name = "getTextSegment" -> ret.s = JString(seg.text)
          [] call.name = "getTextSegmentT0" -> ret.n = seg.t0
          [] call.name = "getTextSegmentT1" -> ret.n = seg.t1

\* C7: on a live context the four accessors change nothing of the library's
\* state and return the count, and for an index below it the text, t0 and t1,
\* of the segments the last transcription left, however often they are
\* called.
C7_AccessorsReadOnly ==
    /\ [](InContract => AccessorAnswer)
    /\ [][call'.name \in Accessors /\ ~crashed'
            => (segs' = segs /\ live' = live /\ freed' = freed)]_vars
\* The end time of the second of two segments was read.
C7_Witness ==
    /\ InContract
    /\ call.name = "getTextSegmentT1"
    /\ call.index = 1
    /\ Len(segs[call.ctx]) = 2
    /\ ret.n = segs[call.ctx][2].t1
    /\ ret.n # segs[call.ctx][2].t0

\* C8: when the asset cannot be opened, initContextFromAsset returns the
\* null handle, calls neither the library's initialisation nor any loader
\* callback, and still releases the path string it acquired.
C8_AssetOpenFailure ==
    (Returned("initContextFromAsset") /\ lib.asset = NULL)
        => /\ ret.n = NULL
           /\ ncalls = << >>
           /\ callbacks = << >>
           /\ Count(jcalls, "GetStringUTFChars") = 1
           /\ Count(jcalls, "ReleaseStringUTFChars") = 1
\* The asset failed to open while a context was free to be created.
C8_Witness ==
    /\ Returned("initContextFromAsset")
    /\ lib.asset = NULL
    /\ ret.n = NULL
    /\ live = {}

SingleCall == {"freeContext", "getTextSegmentCount", "getTextSegment",
               "getTextSegmentT0", "getTextSegmentT1", "getSystemInfo",
               "benchMemcpy", "benchGgmlMulMat"}
EntryPoints == SingleCall \cup {"initContext", "initContextFromAsset",
                                "initContextFromInputStream", "fullTranscribe"}
Fns(calls) == [i \in 1..Len(calls) |-> calls[i].fn]

\* C9 (as stated): every entry point makes exactly one call into the
\* inference library per invocation.
C9_OneNativeCallEach ==
    \A name \in EntryPoints : Returned(name) => Len(ncalls) = 1
\* C9 (amended): freeContext, the four accessors, getSystemInfo and the two
\* benchmark probes make exactly one library call per invocation; the init
\* variants make two (whisper_context_default_params, then the init call),
\* initContextFromAsset none when the asset does not open; fullTranscribe
\* makes whisper_full_default_params, whisper_reset_timings and whisper_full,
\* and after a success whisper_get_timings, whisper_full_n_segments and one
\* whisper_full_get_segment_text per segment.
C9_NativeCallsPerEntryPoint ==
    /\ \A name \in SingleCall : Returned(name) => Len(ncalls) = 1
    /\ Returned("initContext") =>
          Fns(ncalls) = << "whisper_context_default_params",
                           "whisper_init_from_file_with_params" >>
    /\ Returned("initContextFromInputStream") =>
          Fns(ncalls) = << "whisper_context_default_params",
                           "whisper_init_with_params" >>
    /\ Returned("initContextFromAsset") =>
          Fns(ncalls) = IF lib.asset = NULL THEN << >>
                        ELSE << "whisper_context_default_params",
                                "whisper_init_with_params" >>
    /\ Returned("fullTranscribe") =>
          /\ SubSeq(Fns(ncalls), 1, 3) =
                << "whisper_full_default_params", "whisper_reset_timings",
                   "whisper_full" >>
          /\ Len(ncalls) = IF lib.result # 0 THEN 3 ELSE 5 + Len(lib.view)
          /\ lib.result = 0 =>
                /\ ncalls[4].fn = "whisper_get_timings"
                /\ ncalls[5].fn = "whisper_full_n_segments"
                /\ \A i \in 6..Len(ncalls) :
                      ncalls[i].fn = "whisper_full_get_segment_text"
\* A successful transcription of two segments: seven library calls.
C9_Witness ==
    /\ Returned("fullTranscribe")
    /\ lib.result = 0
    /\ Len(lib.view) = 2
    /\ Len(ncalls) = 7

Position(calls, fn) == CHOOSE i \in 1..Len(calls) : calls[i].fn = fn
AcquiredOnce(calls, getFn, releaseFn) ==
    /\ Count(calls, getFn) = 1
    /\ Count(calls, releaseFn) = 1
    /\ Position(calls, getFn) < Position(calls, releaseFn)
    /\ calls[Position(calls, releaseFn)].mode = "JNI_ABORT"

\* C10: fullTranscribe releases the audio array exactly once, in abort
\* mode, whether whisper_full failed or not; inputStreamRead releases the
\* byte-array elements once, in abort mode, deletes its local reference
\* once, and advances inp_ctx.offset by exactly the count it returns.
C10_BuffersReleasedOnce ==
    /\ Returned("fullTranscribe") =>
          AcquiredOnce(jcalls, "GetFloatArrayElements", "ReleaseFloatArrayElements")
    /\ last.op = "read" =>
          /\ AcquiredOnce(last.jcalls, "GetByteArrayElements",
                          "ReleaseByteArrayElements")
          /\ Count(last.jcalls, "NewByteArray") = 1
          /\ Count(last.jcalls, "DeleteLocalRef") = 1
          /\ offset = (last.before + last.ret) % SizeMod
\* A read that found the offset past zero and moved it on by the count it
\* returned, its byte array acquired and released.
C10_Witness ==
    /\ last.op = "read"
    /\ last.before > 0
    /\ last.ret > 0
    /\ offset = last.before + last.ret
    /\ Count(last.jcalls, "ReleaseByteArrayElements") = 1

====
